---------------------------- MODULE Spec2Model ----------------------------
(***************************************************************************)
(* A model of FW_PROCESS_OBJECTS.py: the reconciliation of two inventory   *)
(* snapshots (calculate_deltas), the concurrent DNS verification           *)
(* (process_dns / resolve_dns), the subnet annotation (calculate_subnets), *)
(* the reachability phase (ping_objects) and the main script that runs     *)
(* them in sequence.                                                       *)
(*                                                                         *)
(* Cells of the table are strings, as they are in the CSV files; a string  *)
(* is read character by character with SubSeq, so that split, int and the  *)
(* ipaddress parser are computed as the library computes them.             *)
(***************************************************************************)
EXTENDS Integers, Sequences, FiniteSets, TLC

(***************************************************************************)
(* Strings                                                                 *)
(***************************************************************************)

\* The i-th character of s, as a string of length one.
Ch(s, i) == SubSeq(s, i, i)

\* Python's  c in s  for a one-character c.
Contains(s, c) == \E i \in 1..Len(s) : Ch(s, i) = c

\* Python's  s.split(sep)  for a one-character separator: the pieces between
\* the separators, empty pieces kept.
RECURSIVE Split(_, _)
Split(s, sep) ==
    LET at == {i \in 1..Len(s) : Ch(s, i) = sep}
    IN  IF at = {} THEN <<s>>
        ELSE LET k == CHOOSE i \in at : \A j \in at : i <= j
             IN  <<SubSeq(s, 1, k - 1)>> \o Split(SubSeq(s, k + 1, Len(s)), sep)

\* Python's  sep.join(parts).
RECURSIVE Join(_, _)
Join(parts, sep) ==
    IF Len(parts) = 0 THEN ""
    ELSE IF Len(parts) = 1 THEN parts[1]
    ELSE parts[1] \o sep \o Join(Tail(parts), sep)

Digits == <<"0", "1", "2", "3", "4", "5", "6", "7", "8", "9">>

IsDigit(c) == \E d \in 1..10 : Digits[d] = c

\* str.isdigit() on the ASCII strings of the model: non-empty, digits only.
IsDigits(s) == Len(s) > 0 /\ \A i \in 1..Len(s) : IsDigit(Ch(s, i))

DigitVal(c) == (CHOOSE d \in 1..10 : Digits[d] = c) - 1

\* The value of a string of decimal digits.
RECURSIVE DecVal(_)
DecVal(s) ==
    IF Len(s) = 0 THEN 0
    ELSE 10 * DecVal(SubSeq(s, 1, Len(s) - 1)) + DigitVal(Ch(s, Len(s)))

\* Python's  str(n)  for a natural number.
RECURSIVE IntToStr(_)
IntToStr(n) ==
    IF n < 10 THEN Digits[n + 1]
    ELSE IntToStr(n \div 10) \o Digits[(n % 10) + 1]

\* Python's  int(s)  on the strings of the model's alphabet (digits, letters,
\* '.', '-', '/'): a non-empty string of digits converts, anything else
\* raises ValueError.
PyIntOk(s) == IsDigits(s)

\* list(map(int, s.split('.'))): whether it raises, and its value.
OctetListOk(s) ==
    LET parts == Split(s, ".")
    IN  \A i \in 1..Len(parts) : PyIntOk(parts[i])

OctetList(s) ==
    LET parts == Split(s, ".")
    IN  [i \in 1..Len(parts) |-> DecVal(parts[i])]

(***************************************************************************)
(* ipaddress.ip_network(address, strict=False), IPv4.  No address of the   *)
(* model holds a ':', so the IPv6 parser always refuses and ip_network     *)
(* raises whenever the IPv4 parser does.  The 32-bit arithmetic is done    *)
(* octet by octet.                                                         *)
(***************************************************************************)

\* IPv4Address._parse_octet: digits only, at most three, no leading zero,
\* at most 255.
ParseOctetOk(s) ==
    /\ IsDigits(s)
    /\ Len(s) <= 3
    /\ (s = "0" \/ Ch(s, 1) # "0")
    /\ DecVal(s) <= 255

\* IPv4Address._ip_int_from_string: exactly four octets.
IPv4Ok(s) ==
    LET parts == Split(s, ".")
    IN  /\ Len(s) > 0
        /\ Len(parts) = 4
        /\ \A i \in 1..4 : ParseOctetOk(parts[i])

IPv4Octets(s) ==
    LET parts == Split(s, ".")
    IN  [i \in 1..4 |-> DecVal(parts[i])]

Pow2(n) == CASE n = 0 -> 1 [] n = 1 -> 2 [] n = 2 -> 4 [] n = 3 -> 8
             [] n = 4 -> 16 [] n = 5 -> 32 [] n = 6 -> 64 [] n = 7 -> 128
             [] OTHER -> 256

\* How many of the prefix's p bits fall in octet i.
PrefixBits(p, i) ==
    IF p - 8 * (i - 1) < 0 THEN 0
    ELSE IF p - 8 * (i - 1) > 8 THEN 8
    ELSE p - 8 * (i - 1)

\* The netmask of prefix length p, as four octets.
MaskOctets(p) == [i \in 1..4 |-> 256 - Pow2(8 - PrefixBits(p, i))]

\* _prefix_from_prefix_string: decimal digits, 0..32.
PrefixStringOk(m) == IsDigits(m) /\ Len(m) <= 9 /\ DecVal(m) <= 32

IsNetmask(o) == \E p \in 0..32 : MaskOctets(p) = o

Inverted(o) == [i \in 1..4 |-> 255 - o[i]]

\* _prefix_from_ip_string: a dotted netmask, or failing that a hostmask.
PrefixIpStringOk(m) ==
    /\ IPv4Ok(m)
    /\ (IsNetmask(IPv4Octets(m)) \/ IsNetmask(Inverted(IPv4Octets(m))))

PrefixOfIpString(m) ==
    IF IsNetmask(IPv4Octets(m))
    THEN CHOOSE p \in 0..32 : MaskOctets(p) = IPv4Octets(m)
    ELSE CHOOSE p \in 0..32 : MaskOctets(p) = Inverted(IPv4Octets(m))

\* _make_netmask: the prefix string first, the dotted form second.
NetmaskOk(m) == PrefixStringOk(m) \/ PrefixIpStringOk(m)

PrefixLen(m) == IF PrefixStringOk(m) THEN DecVal(m) ELSE PrefixOfIpString(m)

\* Whether ip_network(address, strict=False) returns.
IpNetworkOk(address) ==
    LET parts == Split(address, "/")
    IN  /\ Len(parts) <= 2
        /\ IPv4Ok(parts[1])
        /\ (Len(parts) = 2 => NetmaskOk(parts[2]))

IpNetworkPrefix(address) ==
    LET parts == Split(address, "/")
    IN  IF Len(parts) = 2 THEN PrefixLen(parts[2]) ELSE 32

\* network.network_address: the address with its host bits cleared.
network_address(address) ==
    LET o == IPv4Octets(Split(address, "/")[1])
        p == IpNetworkPrefix(address)
    IN  [i \in 1..4 |-> o[i] - (o[i] % Pow2(8 - PrefixBits(p, i)))]

\* network.broadcast_address: the address with its host bits set.
broadcast_address(address) ==
    LET n == network_address(address)
        p == IpNetworkPrefix(address)
    IN  [i \in 1..4 |-> n[i] + Pow2(8 - PrefixBits(p, i)) - 1]

\* str() of an IPv4Address: the four octets in decimal, joined by dots.
AddressStr(o) == Join([i \in 1..4 |-> IntToStr(o[i])], ".")


(***************************************************************************)
(* calculate_subnets.calculate_ranges                                      *)
(***************************************************************************)

\* A cell of the table that holds a Python int is written as its decimal
\* text, which is what to_csv writes for it.
IntCell(n) == IntToStr(n)

NA8 == <<"N/A", "N/A", "N/A", "N/A", "N/A", "N/A", "N/A", "N/A">>

\* The '-' branch: lower, upper = address.split('-') raises unless there are
\* exactly two pieces, and int() raises on a piece that is no number.  How
\* many octets each side has is not looked at.
HyphenOk(address) ==
    LET sides == Split(address, "-")
    IN  /\ Len(sides) = 2
        /\ OctetListOk(sides[1])
        /\ OctetListOk(sides[2])

\* lower_octets of the '-' branch.
HyphenLower(address) == OctetList(Split(address, "-")[1])

\* upper_octets of the '-' branch.
HyphenUpper(address) == OctetList(Split(address, "-")[2])

\* lower_octets of the ip_network branch: str(network_address) split and
\* converted back.
lower_octets(address) == OctetList(AddressStr(network_address(address)))

\* upper_octets of the ip_network branch.
upper_octets(address) == OctetList(AddressStr(broadcast_address(address)))

\* Whether calculate_ranges' try block ends without an exception.
ClassifyOk(address) ==
    IF Contains(address, "-") THEN HyphenOk(address) ELSE IpNetworkOk(address)

\* The lower bound of an address that classifies.
LowerOf(address) ==
    IF Contains(address, "-") THEN HyphenLower(address) ELSE lower_octets(address)

\* The upper bound of an address that classifies.
UpperOf(address) ==
    IF Contains(address, "-") THEN HyphenUpper(address) ELSE upper_octets(address)

\* return lower_octets + upper_octets
RangesList(lo, up) == lo \o up

\* calculate_ranges(address): the list it returns.
calculate_ranges(address) ==
    IF ClassifyOk(address)
    THEN LET r == RangesList(LowerOf(address), UpperOf(address))
         IN  [i \in 1..Len(r) |-> IntCell(r[i])]
    ELSE NA8

\* The eight columns, in the order of the list  columns.
SubnetColumns ==
    <<"netIPOct1L", "netIPOct1U", "netIPOct2L", "netIPOct2U",
      "netIPOct3L", "netIPOct3U", "netIPOct4L", "netIPOct4U">>


(***************************************************************************)
(* The table and the CSV files                                             *)
(***************************************************************************)

\* A missing value of a DataFrame.  No file and no input of the model holds
\* this text.
NaN == "<NaN>"

\* The columns of the table: those of the input files, unique_key, and those
\* the enrichment phases add.
Columns ==
    {"netAddress", "fwNetEnv", "fwNetDateAdded", "fwNetDropped", "netUpdDate",
     "unique_key", "fwNetHostName", "fwNetReverseLookup", "nslookUpMatch",
     "netIPOct1L", "netIPOct1U", "netIPOct2L", "netIPOct2U",
     "netIPOct3L", "netIPOct3U", "netIPOct4L", "netIPOct4U", "fwNetPingable"}

\* The texts pd.read_csv reads as a missing value (its default na_values).
NaTexts ==
    {"", "N/A", "NA", "NaN", "nan", "n/a", "null", "NULL", "#N/A", "#NA",
     "-NaN", "-nan", "<NA>", "None"}

\* pd.read_csv, one cell.
ReadCell(text) == IF text \in NaTexts THEN NaN ELSE text

\* pd.read_csv(file): the rows in the file's order.
read_csv(file) ==
    [i \in 1..Len(file) |-> [c \in Columns |-> ReadCell(file[i][c])]]

\* to_csv, one cell: a missing value is written as the empty text.
WriteCell(v) == IF v = NaN THEN "" ELSE v

\* df.to_csv(file, index=False)
to_csv(frame) ==
    [i \in 1..Len(frame) |-> [c \in Columns |-> WriteCell(frame[i][c])]]

\* datetime.now().strftime('%Y-%m-%d') on day d of January 2024.
DateStr(d) == "2024-01-" \o (IF d < 10 THEN "0" ELSE "") \o IntToStr(d)

\* A line of an input file: the five columns calculate_deltas reads, the
\* other cells empty.
CsvRow(address, env, added, dropped, upd) ==
    [c \in Columns |->
        CASE c = "netAddress"     -> address
          [] c = "fwNetEnv"       -> env
          [] c = "fwNetDateAdded" -> added
          [] c = "fwNetDropped"   -> dropped
          [] c = "netUpdDate"     -> upd
          [] OTHER                -> ""]

(***************************************************************************)
(* calculate_deltas                                                        *)
(***************************************************************************)

\* df[netaddress_column_name] + '|' + df[instance_column_name]
UniqueKey(row) == row["netAddress"] \o "|" \o row["fwNetEnv"]

\* The frame with its unique_key column set.
WithKeys(frame) ==
    [i \in 1..Len(frame) |-> [frame[i] EXCEPT !["unique_key"] = UniqueKey(frame[i])]]

\* set(df['unique_key'])
KeySet(frame) == {frame[i]["unique_key"] : i \in 1..Len(frame)}

\* A variant of MarkRemoved that writes 'N/A' where the code writes 'YES'.
MarkRemovedNA(frame, removed_keys) ==
    [i \in 1..Len(frame) |->
        IF frame[i]["unique_key"] \in removed_keys
        THEN [frame[i] EXCEPT !["fwNetDropped"] = "N/A"]
        ELSE frame[i]]

\* A variant of MarkRemoved that also clears the mark of every row whose key
\* is not removed.
MarkRemovedReset(frame, removed_keys) ==
    [i \in 1..Len(frame) |->
        IF frame[i]["unique_key"] \in removed_keys
        THEN [frame[i] EXCEPT !["fwNetDropped"] = "YES"]
        ELSE [frame[i] EXCEPT !["fwNetDropped"] = NaN]]

\* df_prev.loc[df_prev['unique_key'].isin(removed_keys), 'fwNetDropped'] = 'YES'
MarkRemoved(frame, removed_keys) ==
    [i \in 1..Len(frame) |->
        IF frame[i]["unique_key"] \in removed_keys
        THEN [frame[i] EXCEPT !["fwNetDropped"] = "YES"]
        ELSE frame[i]]

\* The rows of the frame whose key is in keys, in the frame's order.
RECURSIVE RowsIn(_, _)
RowsIn(frame, keys) ==
    IF Len(frame) = 0 THEN <<>>
    ELSE (IF Head(frame)["unique_key"] \in keys THEN <<Head(frame)>> ELSE <<>>)
         \o RowsIn(Tail(frame), keys)

\* new_objects: the current rows with a new key, marked 'N/A' and dated.
NewObjects(df_curr, new_keys, date) ==
    LET sel == RowsIn(df_curr, new_keys)
    IN  [i \in 1..Len(sel) |->
            [sel[i] EXCEPT !["fwNetDropped"] = "N/A", !["fwNetDateAdded"] = date]]

\* A variant of UpdDate that dates every row.
UpdDateAll(row, current_date) == current_date

\* The lambda of the netUpdDate update: a row marked 'YES' keeps its date.
UpdDate(row, current_date) ==
    IF row["fwNetDropped"] = "YES" THEN row["netUpdDate"] ELSE current_date

\* A variant of FillNa that leaves the missing value.
FillNaNot(v) == v

\* df_combined['fwNetDropped'].fillna('N/A'), one cell.
FillNa(v) == IF v = NaN THEN "N/A" ELSE v

\* pd.concat([df_prev, new_objects], ignore_index=True)
Concat(df_prev, new_objects) == df_prev \o new_objects

\* calculate_deltas(previous_csv, current_csv) run on day d.
calculate_deltas(prev_file, curr_file, d) ==
    LET df_prev      == WithKeys(read_csv(prev_file))
        df_curr      == WithKeys(read_csv(curr_file))
        prev_keys    == KeySet(df_prev)
        curr_keys    == KeySet(df_curr)
        new_keys     == curr_keys \ prev_keys
        removed_keys == prev_keys \ curr_keys
        marked       == MarkRemoved(df_prev, removed_keys)
        new_objects  == NewObjects(df_curr, new_keys, DateStr(d))
        df_combined  == Concat(marked, new_objects)
        dated        == [i \in 1..Len(df_combined) |->
                            [df_combined[i] EXCEPT
                                !["netUpdDate"] = UpdDate(df_combined[i], DateStr(d))]]
    IN  [i \in 1..Len(dated) |->
            [dated[i] EXCEPT !["fwNetDropped"] = FillNa(dated[i]["fwNetDropped"])]]


(***************************************************************************)
(* resolve_dns                                                             *)
(***************************************************************************)

\* '/' in net_address or '-' in net_address
IsRange(net_address) == Contains(net_address, "/") \/ Contains(net_address, "-")

\* A variant of Member that asks only for some address in the list.
MemberAny(net_address, ip_list) == Len(ip_list) > 0

\* net_address in ip_list
Member(net_address, ip_list) == \E i \in 1..Len(ip_list) : ip_list[i] = net_address

\* The dictionary  result  as resolve_dns creates it.
DefaultResult ==
    [fwNetHostName |-> "N/A", fwNetReverseLookup |-> "N/A", nslookUpMatch |-> "NO MATCH"]

\* resolve_dns(row) for the row's address, given what the resolver answers:
\*   rev: socket.gethostbyaddr(net_address), [ok, hostname];
\*   fwd: socket.gethostbyname_ex(hostname), [ok, ip_list].
resolve_dns(net_address, rev, fwd) ==
    IF IsRange(net_address)
    THEN [DefaultResult EXCEPT !.fwNetHostName = "SKIP-NETWORK RANGE",
                               !.nslookUpMatch = "SKIP-NETWORK RANGE"]
    ELSE IF ~rev.ok
    THEN DefaultResult
    ELSE LET ip_list == IF fwd.ok THEN fwd.ip_list ELSE <<>>
         IN  [fwNetHostName      |-> rev.hostname,
              fwNetReverseLookup |-> IF fwd.ok THEN Join(fwd.ip_list, ",") ELSE "N/A",
              nslookUpMatch      |-> IF Member(net_address, ip_list)
                                     THEN "MATCH" ELSE "NO MATCH"]

\* What the resolver may answer to gethostbyaddr.
RevAnswers ==
    {[ok |-> FALSE, hostname |-> ""], [ok |-> TRUE, hostname |-> "host.example"]}

\* What the resolver may answer to gethostbyname_ex.
FwdAnswers ==
    {[ok |-> FALSE, ip_list |-> <<>>]} \cup
    {[ok |-> TRUE, ip_list |-> l] :
        l \in {<<>>, <<"9.9.9.9">>, <<"9.9.9.10">>, <<"9.9.9.9", "9.9.9.10">>}}

\* The lookups a call of resolve_dns makes: none for a range, the forward
\* one only when the reverse one answered.
NoRev == [ok |-> FALSE, hostname |-> ""]
NoFwd == [ok |-> FALSE, ip_list |-> <<>>]
LookupsMade(index, net_address, rev, fwd) ==
    IF IsRange(net_address)
    THEN [index |-> index, calls |-> 0, rev |-> NoRev, fwd |-> NoFwd]
    ELSE IF ~rev.ok
    THEN [index |-> index, calls |-> 1, rev |-> rev, fwd |-> NoFwd]
    ELSE [index |-> index, calls |-> 2, rev |-> rev, fwd |-> fwd]

(***************************************************************************)
(* The state of a run of the script                                        *)
(***************************************************************************)

VARIABLES
    pc,            \* where the main script is
    previous_csv,  \* the file previous_csv
    current_csv,   \* the file current_csv
    final_csv,     \* the file final_csv
    saves,         \* how many times final_csv was written
    today,         \* the day datetime.now() falls on
    runs,          \* how many times calculate_deltas has run
    merged,        \* the frame as calculate_deltas returned it
    df,            \* combined_df
    futures,       \* process_dns: future_map, index -> the task and its state
    collected,     \* process_dns: how many results the loop has written back
    dns_log,       \* the tasks in the order they finished, with what the
                   \* resolver answered to each
    probing,       \* ping_objects: the rows whose ping subprocess is running
    pingable       \* ping_objects: the verdicts apply has produced so far

vars == <<pc, previous_csv, current_csv, final_csv, saves, today, runs, merged,
          df, futures, collected, dns_log, probing, pingable>>

\* ThreadPoolExecutor(max_workers=10)
max_workers == 10

dnsVars == <<futures, collected, dns_log>>
pingVars == <<probing, pingable>>
fileVars == <<previous_csv, current_csv, final_csv, saves>>

(***************************************************************************)
(* calculate_deltas, as the main script calls it                           *)
(***************************************************************************)

Reconcile ==
    /\ pc = "start"
    /\ df' = calculate_deltas(previous_csv, current_csv, today)
    /\ merged' = df'
    /\ runs' = runs + 1
    /\ pc' = "dns"
    /\ UNCHANGED <<fileVars, today, dnsVars, pingVars>>

(***************************************************************************)
(* process_dns                                                             *)
(***************************************************************************)

NumRunning == Cardinality({i \in 1..Len(futures) : futures[i].state = "running"})

\* executor.submit(resolve_dns, row), for the rows in the order of iterrows.
\* The task gets the row as it is when it is submitted.
DnsSubmit ==
    /\ pc = "dns"
    /\ Len(futures) < Len(df)
    /\ futures' = Append(futures,
                         [state   |-> "pending",
                          address |-> df[Len(futures) + 1]["netAddress"],
                          result  |-> DefaultResult])
    /\ UNCHANGED <<pc, fileVars, today, runs, merged, df, collected, dns_log, pingVars>>

\* A free worker thread takes the oldest task of the executor's queue.
WorkerStart(i) ==
    /\ pc = "dns"
    /\ futures[i].state = "pending"
    /\ \A j \in 1..(i - 1) : futures[j].state # "pending"
    /\ NumRunning < max_workers
    /\ futures' = [futures EXCEPT ![i].state = "running"]
    /\ UNCHANGED <<pc, fileVars, today, runs, merged, df, collected, dns_log, pingVars>>

\* The task returns: resolve_dns has made its lookups and built its result.
WorkerFinish(i, rev, fwd) ==
    /\ pc = "dns"
    /\ futures[i].state = "running"
    /\ futures' = [futures EXCEPT
                      ![i].state = "finished",
                      ![i].result = resolve_dns(futures[i].address, rev, fwd)]
    /\ dns_log' = Append(dns_log, LookupsMade(i, futures[i].address, rev, fwd))
    /\ UNCHANGED <<pc, fileVars, today, runs, merged, df, collected, pingVars>>

\* A variant of ResultFor that takes the results in the order the tasks
\* finished.
ResultByCompletion(index) == futures[dns_log[index].index].result

\* future_map[index].result()
ResultFor(index) == futures[index].result

\* One turn of  for index, future in future_map.items(): the loop waits for
\* the future of the next index and writes its three fields at that index.
DnsCollect ==
    /\ pc = "dns"
    /\ Len(futures) = Len(df)
    /\ collected < Len(df)
    /\ futures[collected + 1].state = "finished"
    /\ LET index == collected + 1
           result == ResultFor(index)
       IN  df' = [df EXCEPT
                     ![index]["fwNetHostName"] = result.fwNetHostName,
                     ![index]["fwNetReverseLookup"] = result.fwNetReverseLookup,
                     ![index]["nslookUpMatch"] = result.nslookUpMatch]
    /\ collected' = collected + 1
    /\ UNCHANGED <<pc, fileVars, today, runs, merged, futures, dns_log, pingVars>>

\* A variant of AllCollected that does not wait for the results.
AllSubmitted == Len(futures) = Len(df)

\* Whether the loop over future_map has ended, a result taken from every
\* future.
AllCollected == Len(futures) = Len(df) /\ collected = Len(df)

\* The with block ends and process_dns returns.
DnsReturn ==
    /\ pc = "dns"
    /\ AllCollected
    /\ pc' = "subnets"
    /\ UNCHANGED <<fileVars, today, runs, merged, df, dnsVars, pingVars>>


(***************************************************************************)
(* calculate_subnets                                                       *)
(***************************************************************************)

\* df['netAddress'].apply(calculate_ranges).tolist()
RangesOf(frame) == [i \in 1..Len(frame) |-> calculate_ranges(frame[i]["netAddress"])]

\* Whether  df[columns] = values  can be carried out: every row's list must
\* have as many values as there are columns, or pandas raises ValueError
\* ("Columns must be same length as key").
Assignable(values) == \A i \in 1..Len(values) : Len(values[i]) = Len(SubnetColumns)

\* df[columns] = values: the k-th value of a row's list goes to the k-th
\* column of  columns.
AssignColumns(frame, values) ==
    [i \in 1..Len(frame) |->
        LET row == frame[i]
            list == values[i]
        IN  [row EXCEPT ![SubnetColumns[1]] = list[1], ![SubnetColumns[2]] = list[2],
                        ![SubnetColumns[3]] = list[3], ![SubnetColumns[4]] = list[4],
                        ![SubnetColumns[5]] = list[5], ![SubnetColumns[6]] = list[6],
                        ![SubnetColumns[7]] = list[7], ![SubnetColumns[8]] = list[8]]]

\* calculate_subnets(df).  The assignment is outside calculate_ranges' try:
\* its ValueError ends the script.  With no row at all the outcome depends
\* on the pandas version, so both are possible.
CalculateSubnets ==
    /\ pc = "subnets"
    /\ LET values == RangesOf(df)
       IN  \/ /\ Len(df) > 0
              /\ Assignable(values)
              /\ df' = AssignColumns(df, values)
              /\ pc' = "checkpoint"
           \/ /\ Len(df) > 0
              /\ ~Assignable(values)
              /\ df' = df
              /\ pc' = "raised"
           \/ /\ Len(df) = 0
              /\ df' = df
              /\ pc' \in {"checkpoint", "raised"}
    /\ UNCHANGED <<fileVars, today, runs, merged, dnsVars, pingVars>>

(***************************************************************************)
(* The two saves of the main script                                        *)
(***************************************************************************)

\* combined_df.to_csv(final_csv, index=False): what the file then holds.
Checkpoint(frame) == to_csv(frame)

\* The save before the ping tests.
SaveCheckpoint ==
    /\ pc = "checkpoint"
    /\ final_csv' = Checkpoint(df)
    /\ saves' = saves + 1
    /\ pc' = "ping"
    /\ UNCHANGED <<previous_csv, current_csv, today, runs, merged, df, dnsVars, pingVars>>

\* The save after the ping tests.
SaveFinal ==
    /\ pc = "final"
    /\ final_csv' = to_csv(df)
    /\ saves' = saves + 1
    /\ pc' = "done"
    /\ UNCHANGED <<previous_csv, current_csv, today, runs, merged, df, dnsVars, pingVars>>

(***************************************************************************)
(* ping_objects                                                            *)
(***************************************************************************)

\* What the ping subprocess may do: exit 0, exit non-zero
\* (CalledProcessError), or run into the 5 second timeout (TimeoutExpired).
PingOutcomes == {"exit0", "nonzero", "timeout"}

\* ping(ip): 'YES' when check_output returns, 'NO' on either exception.
PingVerdict(outcome) == IF outcome = "exit0" THEN "YES" ELSE "NO"

\* A variant of CanStart that starts a row's ping while others are running.
CanStartPooled(j) == j > Len(pingable)

\* Series.apply calls the lambda on one row after another: the call for row
\* j is made when the calls for the rows before it have returned.
CanStart(j) == probing = {} /\ j = Len(pingable) + 1

\* The lambda on a range row: no ping.
PingSkip ==
    /\ pc = "ping"
    /\ Len(pingable) < Len(df)
    /\ CanStart(Len(pingable) + 1)
    /\ IsRange(df[Len(pingable) + 1]["netAddress"])
    /\ pingable' = Append(pingable, "SKIP - NETWORK RANGE")
    /\ UNCHANGED <<pc, fileVars, today, runs, merged, df, dnsVars, probing>>

\* subprocess.check_output(['ping', '-c', '2', ip], timeout=5) is started
\* for row j.
ProbeStart(j) ==
    /\ pc = "ping"
    /\ j \in 1..Len(df)
    /\ j \notin probing
    /\ CanStart(j)
    /\ ~IsRange(df[j]["netAddress"])
    /\ probing' = probing \cup {j}
    /\ UNCHANGED <<pc, fileVars, today, runs, merged, df, dnsVars, pingable>>

\* check_output of row j returns or raises; ping returns its verdict.
ProbeReturn(j, outcome) ==
    /\ pc = "ping"
    /\ j \in probing
    /\ probing' = probing \ {j}
    /\ pingable' = Append(pingable, PingVerdict(outcome))
    /\ UNCHANGED <<pc, fileVars, today, runs, merged, df, dnsVars>>

\* df['fwNetPingable'] = the series apply returns; ping_objects returns.
PingAssign ==
    /\ pc = "ping"
    /\ Len(pingable) = Len(df)
    /\ probing = {}
    /\ df' = [i \in 1..Len(df) |-> [df[i] EXCEPT !["fwNetPingable"] = pingable[i]]]
    /\ pc' = "final"
    /\ UNCHANGED <<fileVars, today, runs, merged, dnsVars, pingVars>>


(***************************************************************************)
(* Bounds and input files                                                  *)
(***************************************************************************)

MaxRuns == 2
MaxRunPrev == 1
MaxRunCurr == 2
MaxPrevLen == 2
MaxCurrLen == 2
MaxDnsRows == 2
MaxSubnetRows == 2
MaxPingRows == 3
MaxMainPrev == 1
MaxMainCurr == 1

\* The sequences over S of length at most n.
SeqsUpTo(S, n) == UNION {[1..k -> S] : k \in 0..n}

\* The lines of a current file over the given addresses and environments.
CurrRows(addresses, envs) ==
    {CsvRow(a, e, "", "", "") : a \in addresses, e \in envs}

\* The lines of a previous file, written by an earlier run on day 2: every
\* record was added on day 1; the dropped cell is one of marks; a record
\* marked 'YES' was last updated on day 1 and any other on day 2.
PrevRows(addresses, envs, marks) ==
    {CsvRow(a, e, DateStr(1), d, IF d = "YES" THEN DateStr(1) ELSE DateStr(2)) :
        a \in addresses, e \in envs, d \in marks}

\* What the dropped cell of a line of a previous file can hold.
Marks == {"YES", "N/A", ""}

DeltaCurrRows ==
    CurrRows({"1.2.3.4"}, {"prod", "dev"}) \cup CurrRows({"5.6.7.8"}, {"prod"})

DeltaPrevRows ==
    PrevRows({"1.2.3.4"}, {"prod", "dev"}, Marks) \cup PrevRows({"5.6.7.8"}, {"prod"}, Marks)

\* The files of the runs that follow one another.
RunCurrRows == CurrRows({"1.2.3.4"}, {"prod", "dev"})

RunPrevRows == PrevRows({"1.2.3.4"}, {"prod", "dev"}, Marks)

\* The next run: the frame calculate_deltas returned is saved and read back
\* as the previous file, with a new current file, on the next day.
\* calculate_deltas reads none of the columns the enrichment phases add.
Rerun ==
    /\ pc = "dns"
    /\ futures = <<>>
    /\ runs < MaxRuns
    /\ previous_csv' = to_csv(df)
    /\ current_csv' \in SeqsUpTo(RunCurrRows, MaxRunCurr)
    /\ today' = today + 1
    /\ pc' = "start"
    /\ UNCHANGED <<final_csv, saves, runs, merged, df, dnsVars, pingVars>>

(***************************************************************************)
(* Initial states                                                          *)
(***************************************************************************)

\* The script is started on day 3 with the two input files given.
Start(prev_file, curr_file) ==
    /\ pc = "start"
    /\ previous_csv = prev_file
    /\ current_csv = curr_file
    /\ final_csv = <<>>
    /\ saves = 0
    /\ today = 3
    /\ runs = 0
    /\ merged = <<>>
    /\ df = <<>>
    /\ futures = <<>>
    /\ collected = 0
    /\ dns_log = <<>>
    /\ probing = {}
    /\ pingable = <<>>

\* The whole script on a few input files.
MainAddresses == {"9.9.9.9", "10.0.0.0/24", "10.0-10.1"}

Init ==
    \E p \in SeqsUpTo(PrevRows(MainAddresses, {"prod"}, {"N/A"}), MaxMainPrev),
       c \in SeqsUpTo(CurrRows(MainAddresses, {"prod"}), MaxMainCurr) :
        Start(p, c)

\* One run of calculate_deltas on any two files.
InitDeltas ==
    \E p \in SeqsUpTo(DeltaPrevRows, MaxPrevLen),
       c \in SeqsUpTo(DeltaCurrRows, MaxCurrLen) :
        Start(p, c)

\* Runs of calculate_deltas, one after another.
InitRuns ==
    \E p \in SeqsUpTo(RunPrevRows, MaxRunPrev),
       c \in SeqsUpTo(RunCurrRows, MaxRunCurr) :
        Start(p, c)

\* The state calculate_deltas leaves when the previous file is empty and the
\* current file is curr_file.
Reconciled(curr_file) ==
    /\ pc = "dns"
    /\ previous_csv = <<>>
    /\ current_csv = curr_file
    /\ final_csv = <<>>
    /\ saves = 0
    /\ today = 3
    /\ runs = 1
    /\ merged = calculate_deltas(<<>>, curr_file, 3)
    /\ df = merged
    /\ futures = <<>>
    /\ collected = 0
    /\ dns_log = <<>>
    /\ probing = {}
    /\ pingable = <<>>

DnsAddresses == {"9.9.9.9", "1.2.3.4", "10.0.0.0/24", "10.0.0.5-10.0.0.9"}

InitDns ==
    \E c \in SeqsUpTo(CurrRows(DnsAddresses, {"prod"}), MaxDnsRows) : Reconciled(c)

\* The frame process_dns returns when every reverse lookup failed.
DnsFailed(frame) ==
    [i \in 1..Len(frame) |->
        LET result == resolve_dns(frame[i]["netAddress"], NoRev, NoFwd)
        IN  [frame[i] EXCEPT
                !["fwNetHostName"] = result.fwNetHostName,
                !["fwNetReverseLookup"] = result.fwNetReverseLookup,
                !["nslookUpMatch"] = result.nslookUpMatch]]

\* The state process_dns leaves in that case.
Resolved(curr_file) ==
    /\ previous_csv = <<>>
    /\ current_csv = curr_file
    /\ today = 3
    /\ runs = 1
    /\ merged = calculate_deltas(<<>>, curr_file, 3)
    /\ futures = [i \in 1..Len(merged) |->
                     [state   |-> "finished",
                      address |-> merged[i]["netAddress"],
                      result  |-> resolve_dns(merged[i]["netAddress"], NoRev, NoFwd)]]
    /\ collected = Len(merged)
    /\ dns_log = [i \in 1..Len(merged) |->
                     LookupsMade(i, merged[i]["netAddress"], NoRev, NoFwd)]
    /\ probing = {}
    /\ pingable = <<>>

SubnetAddresses ==
    {"9.9.9.9", "10.0.0.0/24", "10.0.0.5-10.0.0.9", "192.168.5.77/20",
     "10.1.2.3/0.0.0.255", "1.2.3.007-1.2.3.9", "1.2.3.4.5.6-7.8",
     "not-an-ip", "10.1.2.3/33", "10.1.2.03", "10.0-10.1", "1.2.3.4-5"}

InitSubnets ==
    \E c \in SeqsUpTo(CurrRows(SubnetAddresses, {"prod"}), MaxSubnetRows) :
        /\ Resolved(c)
        /\ pc = "subnets"
        /\ df = DnsFailed(merged)
        /\ final_csv = <<>>
        /\ saves = 0

PingAddresses == {"9.9.9.9", "1.2.3.4", "10.0.0.0/24", "10.0.0.5-10.0.0.9"}

InitPing ==
    \E c \in SeqsUpTo(CurrRows(PingAddresses, {"prod"}), MaxPingRows) :
        /\ Resolved(c)
        /\ pc = "ping"
        /\ df = AssignColumns(DnsFailed(merged), RangesOf(merged))
        /\ final_csv = Checkpoint(df)
        /\ saves = 1

(***************************************************************************)
(* Specifications                                                          *)
(***************************************************************************)

DnsPhase ==
    \/ DnsSubmit
    \/ \E i \in 1..Len(futures) : WorkerStart(i)
    \/ \E i \in 1..Len(futures), rev \in RevAnswers, fwd \in FwdAnswers :
           WorkerFinish(i, rev, fwd)
    \/ DnsCollect
    \/ DnsReturn

PingPhase ==
    \/ PingSkip
    \/ \E j \in 1..Len(df) : ProbeStart(j)
    \/ \E j \in 1..Len(df), outcome \in PingOutcomes : ProbeReturn(j, outcome)
    \/ PingAssign

Next ==
    \/ Reconcile
    \/ DnsPhase
    \/ CalculateSubnets
    \/ SaveCheckpoint
    \/ PingPhase
    \/ SaveFinal

Spec == Init /\ [][Next]_vars

SpecDeltas == InitDeltas /\ [][Reconcile]_vars

NextRuns == Reconcile \/ Rerun

SpecRuns == InitRuns /\ [][NextRuns]_vars

SpecDns == InitDns /\ [][DnsPhase]_vars

SpecSubnets == InitSubnets /\ [][CalculateSubnets]_vars

SpecPing == InitPing /\ [][PingPhase]_vars


(***************************************************************************)
(* What the claims are stated with                                         *)
(***************************************************************************)

\* The composite key of a line of a file or of a row of the table.
KeyOf(row) == row["netAddress"] \o "|" \o row["fwNetEnv"]

KeysOfFile(file) == {KeyOf(file[i]) : i \in 1..Len(file)}

\* The state calculate_deltas has just returned in: previous_csv and
\* current_csv are the files it read, df is what it returned.
JustReconciled == pc = "dns" /\ futures = <<>>

RemovedKeys == KeysOfFile(previous_csv) \ KeysOfFile(current_csv)

AddedKeys == KeysOfFile(current_csv) \ KeysOfFile(previous_csv)

C3_UpdDate ==
    JustReconciled =>
        \A i \in 1..Len(df) :
            IF df[i]["fwNetDropped"] = "YES"
            THEN /\ i <= Len(previous_csv)
                 /\ df[i]["netUpdDate"] = ReadCell(previous_csv[i]["netUpdDate"])
            ELSE df[i]["netUpdDate"] = DateStr(today)

\* A run that dropped a row which was not marked before, next to a row whose
\* mark was empty and that stays.
C3_Witness ==
    /\ JustReconciled
    /\ \E i \in 1..Len(previous_csv) :
           /\ previous_csv[i]["fwNetDropped"] # "YES"
           /\ df[i]["fwNetDropped"] = "YES"
           /\ df[i]["netUpdDate"] # DateStr(today)
    /\ \E i \in 1..Len(previous_csv) :
           /\ previous_csv[i]["fwNetDropped"] = ""
           /\ df[i]["netUpdDate"] = DateStr(today)

\* C9: after reconcile the dropped field of every row is 'YES' or 'N/A'.
C9_DroppedValues ==
    JustReconciled =>
        \A i \in 1..Len(df) : df[i]["fwNetDropped"] \in {"YES", "N/A"}

\* A previous row whose dropped cell was empty and whose key is still there.
C9_Witness ==
    /\ JustReconciled
    /\ \E i \in 1..Len(previous_csv) :
           /\ previous_csv[i]["fwNetDropped"] = ""
           /\ KeyOf(previous_csv[i]) \in KeysOfFile(current_csv)
           /\ df[i]["fwNetDropped"] = "N/A"

\* How many rows of the frame have the key.
RowsWithKey(frame, k) == Cardinality({j \in 1..Len(frame) : KeyOf(frame[j]) = k})

\* C10: a run of calculate_deltas on the output of the run before leaves
\* every row that was marked 'YES' in place, marked 'YES', with its dates,
\* and adds no row with its key.
C10_DroppedAbsorbing ==
    [][(pc = "start" /\ pc' = "dns") =>
          \A i \in 1..Len(df) :
              df[i]["fwNetDropped"] = "YES" =>
                  /\ i <= Len(df')
                  /\ KeyOf(df'[i]) = KeyOf(df[i])
                  /\ df'[i]["fwNetDropped"] = "YES"
                  /\ df'[i]["netUpdDate"] = df[i]["netUpdDate"]
                  /\ df'[i]["fwNetDateAdded"] = df[i]["fwNetDateAdded"]
                  /\ RowsWithKey(df', KeyOf(df[i])) = RowsWithKey(df, KeyOf(df[i]))]_vars

\* The second run: a row that was not marked on day 2, which the first run
\* has dropped, and whose key is in the current file again.
C10_Witness ==
    /\ JustReconciled
    /\ runs = 2
    /\ \E i \in 1..Len(df) :
           /\ df[i]["fwNetDateAdded"] = DateStr(1)
           /\ df[i]["fwNetDropped"] = "YES"
           /\ df[i]["netUpdDate"] = DateStr(2)
           /\ KeyOf(df[i]) \in KeysOfFile(current_csv)
           /\ RowsWithKey(df, KeyOf(df[i])) = 1


\* The addresses of a list of addresses.
ListSet(ip_list) == {ip_list[k] : k \in 1..Len(ip_list)}

\* C4: for an address that is no range, the verdict is 'MATCH' exactly when
\* the reverse lookup answered and the address is in the forward lookup's
\* list; a failed reverse lookup gives the three defaults; a failed forward
\* lookup keeps the host name, gives 'NO MATCH', and the task still returns.
C4_MatchVerdict ==
    \A n \in 1..Len(dns_log) :
        LET e == dns_log[n]
            task == futures[e.index]
        IN  ~IsRange(task.address) =>
                /\ task.state = "finished"
                /\ task.result.nslookUpMatch \in {"MATCH", "NO MATCH"}
                /\ task.result.nslookUpMatch = "MATCH" <=>
                       (e.rev.ok /\ e.fwd.ok /\ task.address \in ListSet(e.fwd.ip_list))
                /\ ~e.rev.ok =>
                       /\ task.result.fwNetHostName = "N/A"
                       /\ task.result.fwNetReverseLookup = "N/A"
                       /\ task.result.nslookUpMatch = "NO MATCH"
                /\ (e.rev.ok /\ ~e.fwd.ok) =>
                       /\ task.result.fwNetHostName = e.rev.hostname
                       /\ task.result.nslookUpMatch = "NO MATCH"

\* Two tasks have finished: one whose address was in a list of two, another
\* whose forward lookup failed after the reverse lookup answered.
C4_Witness ==
    /\ \E n \in 1..Len(dns_log) :
           /\ futures[dns_log[n].index].result.nslookUpMatch = "MATCH"
           /\ Len(dns_log[n].fwd.ip_list) = 2
    /\ \E n \in 1..Len(dns_log) :
           /\ dns_log[n].rev.ok
           /\ dns_log[n].calls = 2
           /\ ~dns_log[n].fwd.ok
           /\ futures[dns_log[n].index].result.fwNetHostName = "host.example"

\* The three fields process_dns writes.
DnsFields(row) ==
    [fwNetHostName      |-> row["fwNetHostName"],
     fwNetReverseLookup |-> row["fwNetReverseLookup"],
     nslookUpMatch      |-> row["nslookUpMatch"]]

\* The row with the three fields of the result written into it.
WithDns(row, result) ==
    [row EXCEPT !["fwNetHostName"] = result.fwNetHostName,
                !["fwNetReverseLookup"] = result.fwNetReverseLookup,
                !["nslookUpMatch"] = result.nslookUpMatch]

\* C5: whatever the order in which the tasks run and finish, row i gets the
\* result of the task that was submitted for row i's address and nothing
\* else of it changes, a row whose result is not yet collected is as
\* reconcile left it, and the rows stay in reconcile's order.
C5_WriteBackByIndex ==
    (pc \in {"dns", "subnets"}) =>
        /\ NumRunning <= max_workers
        /\ Len(df) = Len(merged)
        /\ collected <= Len(futures)
        /\ \A i \in 1..Len(futures) : futures[i].address = merged[i]["netAddress"]
        /\ \A i \in 1..Len(df) :
               IF i <= collected
               THEN /\ futures[i].state = "finished"
                    /\ df[i] = WithDns(merged[i], futures[i].result)
               ELSE df[i] = merged[i]
        /\ (pc = "subnets" => collected = Len(df))

\* process_dns has returned; the second row's task finished before the
\* first's, with another result.
C5_Witness ==
    /\ pc = "subnets"
    /\ Len(df) >= 2
    /\ dns_log[1].index = 2
    /\ dns_log[2].index = 1
    /\ DnsFields(df[1]) # DnsFields(df[2])
    /\ DnsFields(df[2]) = futures[2].result


\* The eight bound columns of a row, in the order of  columns.
Bounds(row) == [k \in 1..8 |-> row[SubnetColumns[k]]]

\* C2: after calculate_subnets, for a row whose address classifies into
\* four lower and four upper octets, column netIPOct{k}L holds the k-th
\* lower octet and column netIPOct{k}U the k-th upper octet.
C2_Interleaved ==
    pc = "checkpoint" =>
        \A i \in 1..Len(df) :
            LET address == df[i]["netAddress"]
            IN  (/\ ClassifyOk(address)
                 /\ Len(LowerOf(address)) = 4
                 /\ Len(UpperOf(address)) = 4) =>
                    \A k \in 1..4 :
                        /\ df[i][SubnetColumns[2 * k - 1]] = IntCell(LowerOf(address)[k])
                        /\ df[i][SubnetColumns[2 * k]] = IntCell(UpperOf(address)[k])

\* C7: calculate_subnets never raises on a batch of at least one record:
\* it returns, every row is still there, and every row has eight bound
\* values, all numbers or all 'N/A'.
C7_NeverRaises ==
    Len(df) > 0 =>
        /\ pc # "raised"
        /\ pc = "checkpoint" =>
               /\ Len(df) = Len(merged)
               /\ \A i \in 1..Len(df) :
                      /\ df[i]["netAddress"] = merged[i]["netAddress"]
                      /\ \/ \A k \in 1..8 : IsDigits(Bounds(df[i])[k])
                         \/ Bounds(df[i]) = NA8

C8_PhaseOrder ==
    /\ pc \in {"start", "dns", "subnets", "checkpoint", "raised", "ping", "final", "done"}
    /\ pc \notin {"start", "dns"} =>
           /\ Len(futures) = Len(df)
           /\ collected = Len(df)
           /\ \A i \in 1..Len(df) :
                  /\ futures[i].state = "finished"
                  /\ DnsFields(df[i]) = futures[i].result
    /\ pc \in {"start", "dns", "subnets", "raised"} =>
           \A i \in 1..Len(df) : \A k \in 1..8 : Bounds(df[i])[k] = NaN
    /\ pc \in {"start", "dns", "subnets", "raised", "checkpoint"} =>
           /\ saves = 0
           /\ final_csv = <<>>
           /\ probing = {}
           /\ pingable = <<>>
    /\ pc \in {"ping", "final", "done"} =>
           /\ saves >= 1
           /\ Len(final_csv) = Len(df)
           /\ \A i \in 1..Len(df) :
                  /\ KeyOf(final_csv[i]) = KeyOf(merged[i])
                  /\ DnsFields(final_csv[i]) = futures[i].result
                  /\ \A k \in 1..8 :
                         /\ Bounds(final_csv[i])[k] # ""
                         /\ Bounds(final_csv[i])[k] = WriteCell(Bounds(df[i])[k])
    /\ pc = "ping" => saves = 1 /\ \A i \in 1..Len(df) : df[i]["fwNetPingable"] = NaN
    /\ pc = "done" => saves = 2 /\ final_csv = to_csv(df)

\* A probe is running in a run with a row of the previous file and a new row.
C8_Witness ==
    /\ pc = "ping"
    /\ probing # {}
    /\ Len(previous_csv) = 1
    /\ Len(df) = 2
    /\ saves = 1

=============================================================================
